---- MODULE Spec2Model ----
(***************************************************************************)
(* A model of the Go Makefile Project: the three-route HTTP server of      *)
(* main.go (process start-up, the default ServeMux, the three handlers)    *)
(* and the worker pool of Worker_Pool.md, Option 2.                        *)
(*                                                                         *)
(* A URL path is modelled as the sequence of its segments: the text after  *)
(* the leading "/" split at every "/".  So "/" is <<"">>, "/health" is     *)
(* <<"health">>, "/health/" is <<"health", "">> and "//foo" is             *)
(* <<"", "foo">>.  A ServeMux pattern is written the same way.             *)
(***************************************************************************)
EXTENDS Integers, Sequences, FiniteSets, TLC

\* ------------------------------------------------------------------ bounds

\* connections the server handles concurrently
MaxConns == 2

\* longest request path, in segments, offered to the multiplexer
MaxSegs == 3

\* the worker pool, scaled down from 10 workers and 500 jobs
MaxWorkers == 2
MaxJobs == 3

\* ------------------------------------------------- constants of the program

defaultPort == "8080"
version == "1.0.0"

\* the port left empty
configuredPortEmpty == ""

\* main.go:15, port := "3000"
configuredPort == "3000"

\* http.StatusOK
StatusOK == 200

\* the two processes of the "second instance" scenario
Instances == {"first", "second"}
Conns == 1..MaxConns
\* the concurrent clients send requests with and without a response body
Methods == {"GET", "HEAD"}
AllMethods == {"GET", "HEAD", "POST", "PUT", "DELETE", "CONNECT"}
Queries == {"", "a=1"}

RootPath == <<"">>
HealthPath == <<"health">>
VersionPath == <<"version">>
RoutePaths == {RootPath, HealthPath, VersionPath}
\* what the concurrent clients ask for: the three routes and "//health"
ConnPaths == RoutePaths \cup {<<"", "health">>}

Segs == {"", ".", "..", "health", "version", "foo"}
Paths == UNION {[1..k -> Segs] : k \in 1..MaxSegs}

NoOwner == "none"
Addrs == {":" \o configuredPort, ":" \o defaultPort}

VARIABLES
    pc,        \* pc[i]: where instance i's main() is
    port,      \* port[i]: main's local variable port
    fallback,  \* fallback[i]: main.go:17 was executed
    mux,       \* mux[i]: the patterns registered in http.DefaultServeMux
    logs,      \* logs[i]: the lines written through package log
    exitCode,  \* exitCode[i]: the exit status, -1 while running
    binds,     \* binds[i]: calls of http.ListenAndServe so far
    err,       \* err[i]: the error http.ListenAndServe returned
    owner,     \* owner[a]: the instance holding the listener on address a
    conn,      \* conn[c]: the connection c and the request on it
    probe,     \* one request routed and answered in one step
    mainpc,    \* the worker pool's main goroutine
    wg,        \* the WaitGroup counter
    jobs,      \* the buffered channel's content
    closed,    \* the channel was closed
    next,      \* the next job main sends
    wpc,       \* wpc[w]: where worker w is
    cur,       \* cur[w]: the job worker w received
    done       \* done[j]: how often job j was processed

serverVars == <<pc, port, fallback, mux, logs, exitCode, binds, err, owner>>
poolVars == <<mainpc, wg, jobs, closed, next, wpc, cur, done>>
vars == <<serverVars, conn, probe, poolVars>>

\* ------------------------------------------------------ http.ResponseWriter

\* the writer of a response to a request of method m; body is what the
\* client receives
NewWriter(m) ==
    [method |-> m, wroteHeader |-> FALSE, status |-> 0, body |-> "", location |-> <<>>]

\* w.WriteHeader(code): the first call fixes the status, later ones do nothing
WriteHeader(w, code) ==
    IF w.wroteHeader THEN w
    ELSE [w EXCEPT !.wroteHeader = TRUE, !.status = code]

\* fmt.Fprintf(w, s): w.Write sends the header with 200 if none was written;
\* the server sends no body in answer to a HEAD request and drops what is
\* written
Fprintf(w, s) ==
    [WriteHeader(w, StatusOK) EXCEPT !.body = IF w.method = "HEAD" THEN @ ELSE @ \o s]

\* ----------------------------------------------------------------- handlers

\* handleRoot with the line's newline forgotten
handleRootNoNewline(w) ==
    Fprintf(w, "Hello! Welcome to the Go Makefile Project!")

handleRoot(w) ==
    Fprintf(w, "Hello! Welcome to the Go Makefile Project!\n")

handleHealthHeader(w) ==
    WriteHeader(w, StatusOK)

\* handleHealth answering in lower case
handleHealthBodyLower(w) ==
    Fprintf(w, "ok\n")

handleHealthBody(w) ==
    Fprintf(w, "OK\n")

handleHealth(w) ==
    handleHealthBody(handleHealthHeader(w))

\* handleVersion formatting the other constant of the block
handleVersionOfPort(w) ==
    Fprintf(w, "Version: " \o defaultPort \o "\n")

\* handleVersion formatting into a buffer shared with handleHealth
handleVersionShared(w) ==
    Fprintf(w, IF \E c \in Conns : conn[c].phase = "handleHealth36"
               THEN "OK\n" ELSE "Version: " \o version \o "\n")

handleVersion(w) ==
    Fprintf(w, "Version: " \o version \o "\n")

\* -------------------------------------------------------------- the ServeMux

\* main without the registration of "/"
RegisteredNoRoot ==
    { [pattern |-> HealthPath, handler |-> "handleHealth"],
      [pattern |-> VersionPath, handler |-> "handleVersion"] }

\* the three http.HandleFunc calls of main
Registered ==
    { [pattern |-> RootPath, handler |-> "handleRoot"],
      [pattern |-> HealthPath, handler |-> "handleHealth"],
      [pattern |-> VersionPath, handler |-> "handleVersion"] }

Last(s) == s[Len(s)]
Front(s) == SubSeq(s, 1, Len(s) - 1)

\* path.Clean on a rooted path: drops empty and "." segments, ".." removes
\* the segment before it (and is dropped at the root)
RECURSIVE CleanSegs(_, _)
CleanSegs(segs, acc) ==
    IF segs = <<>> THEN acc
    ELSE LET s == Head(segs) IN
         IF s = "" \/ s = "." THEN CleanSegs(Tail(segs), acc)
         ELSE IF s = ".." THEN CleanSegs(Tail(segs), IF acc = <<>> THEN acc ELSE Front(acc))
         ELSE CleanSegs(Tail(segs), Append(acc, s))

\* net/http cleanPath: path.Clean, with the trailing slash put back
cleanPath(p) ==
    LET np == CleanSegs(p, <<>>) IN
    IF np = <<>> THEN RootPath
    ELSE IF Last(p) = "" THEN Append(np, "") ELSE np

\* a pattern ending in "/" matches every path below it, any other pattern
\* matches only itself
Matches(pat, p) ==
    IF Last(pat) = ""
    THEN Len(p) >= Len(pat) /\ SubSeq(p, 1, Len(pat) - 1) = Front(pat)
    ELSE p = pat

\* e is a more specific pattern than f: an exact pattern before a subtree,
\* a longer subtree before a shorter one
MoreSpecific(e, f) ==
    \/ Last(e.pattern) # "" /\ Last(f.pattern) = ""
    \/ Last(e.pattern) = "" /\ Last(f.pattern) = "" /\ Len(e.pattern) > Len(f.pattern)

\* the handler of the most specific registered pattern matching p, or none
Match(m, p) ==
    LET hits == {e \in m : Matches(e.pattern, p)} IN
    IF hits = {} THEN "NotFound"
    ELSE (CHOOSE e \in hits : \A f \in hits : f = e \/ MoreSpecific(e, f)).handler

\* ServeMux.findHandler: every method but CONNECT has its path cleaned and
\* is redirected to the clean path when that differs from the one requested
Route(m, method, p) ==
    IF method # "CONNECT" /\ cleanPath(p) # p THEN "Redirect"
    ELSE Match(m, p)

\* the text of a path: "/" before every segment
RECURSIVE PathString(_)
PathString(p) ==
    IF p = <<>> THEN "" ELSE "/" \o Head(p) \o PathString(Tail(p))

\* http.Redirect to the clean path, the query kept: the Location header and,
\* for GET and HEAD, a short HTML body
Redirect(w, p, q) ==
    LET url == PathString(p) \o (IF q = "" THEN "" ELSE "?" \o q)
        moved == [WriteHeader(w, 301) EXCEPT !.location = p]
    IN  IF w.method \in {"GET", "HEAD"}
        THEN Fprintf(moved, "<a href=\"" \o url \o "\">Moved Permanently</a>.\n\n")
        ELSE moved

\* the whole response of a request
Serve(m, method, p, q) ==
    LET h == Route(m, method, p) IN
    CASE h = "handleRoot" -> handleRoot(NewWriter(method))
      [] h = "handleHealth" -> handleHealth(NewWriter(method))
      [] h = "handleVersion" -> handleVersion(NewWriter(method))
      [] h = "Redirect" -> Redirect(NewWriter(method), cleanPath(p), q)
      [] OTHER -> Fprintf(WriteHeader(NewWriter(method), 404), "404 page not found\n")

\* ------------------------------------------------------------------- main()

Addr(p) == ":" \o p

\* main.go:15-18: the port is the literal, the default only if it is empty
ResolvePort(p) == IF p = "" THEN defaultPort ELSE p

StartingLine(p) == "Starting server on port " \o p \o "..."

BindErrors == {"bind: address already in use", "bind: permission denied"}

\* a listener that shares its address
BindSucceedsShared(a) == TRUE

\* the operating system lets a bind through only on a free address
BindSucceeds(a) == owner[a] = NoOwner

\* main trying the bind again instead of giving up
AfterListenErrorRetry == "listen"

\* what main does with a non-nil error of ListenAndServe: log.Fatal
AfterListenError == "fatal"

IdleConn == [phase |-> "idle", srv |-> NoOwner, method |-> "", path |-> <<>>,
             query |-> "", w |-> NewWriter("")]

NoProbe == [method |-> "", path |-> <<>>, query |-> "", handler |-> "", w |-> NewWriter("")]

PoolIdle ==
    /\ mainpc = "off" /\ wg = 0 /\ jobs = <<>> /\ closed = FALSE /\ next = 0
    /\ wpc = [w \in 1..MaxWorkers |-> "off"]
    /\ cur = [w \in 1..MaxWorkers |-> -1]
    /\ done = [j \in 0..(MaxJobs - 1) |-> 0]

Init ==
    /\ pc = [i \in Instances |-> "main"]
    /\ port = [i \in Instances |-> ""]
    /\ fallback = [i \in Instances |-> FALSE]
    /\ mux = [i \in Instances |-> {}]
    /\ logs = [i \in Instances |-> <<>>]
    /\ exitCode = [i \in Instances |-> -1]
    /\ binds = [i \in Instances |-> 0]
    /\ err = [i \in Instances |-> ""]
    /\ owner = [a \in Addrs |-> NoOwner]
    /\ conn = [c \in Conns |-> IdleConn]
    /\ probe = NoProbe
    /\ PoolIdle

\* main.go:15-18
SelectPort(i) ==
    /\ pc[i] = "main"
    /\ port' = [port EXCEPT ![i] = ResolvePort(configuredPort)]
    /\ fallback' = [fallback EXCEPT ![i] = (configuredPort = "")]
    /\ pc' = [pc EXCEPT ![i] = "register"]
    /\ UNCHANGED <<mux, logs, exitCode, binds, err, owner, conn, probe, poolVars>>

\* main.go:20-22
RegisterHandlers(i) ==
    /\ pc[i] = "register"
    /\ mux' = [mux EXCEPT ![i] = Registered]
    /\ pc' = [pc EXCEPT ![i] = "log"]
    /\ UNCHANGED <<port, fallback, logs, exitCode, binds, err, owner, conn, probe, poolVars>>

\* main without its log.Printf
LogStartingSilent(i) ==
    /\ pc[i] = "log"
    /\ pc' = [pc EXCEPT ![i] = "listen"]
    /\ UNCHANGED <<port, fallback, mux, logs, exitCode, binds, err, owner, conn, probe, poolVars>>

\* main.go:24
LogStarting(i) ==
    /\ pc[i] = "log"
    /\ logs' = [logs EXCEPT ![i] = Append(@, StartingLine(port[i]))]
    /\ pc' = [pc EXCEPT ![i] = "listen"]
    /\ UNCHANGED <<port, fallback, mux, exitCode, binds, err, owner, conn, probe, poolVars>>

\* main.go:25, the bind succeeds: ListenAndServe does not return
ListenOK(i) ==
    /\ pc[i] = "listen"
    /\ BindSucceeds(Addr(port[i]))
    /\ owner' = [owner EXCEPT ![Addr(port[i])] = i]
    /\ binds' = [binds EXCEPT ![i] = @ + 1]
    /\ pc' = [pc EXCEPT ![i] = "serving"]
    /\ UNCHANGED <<port, fallback, mux, logs, exitCode, err, conn, probe, poolVars>>

\* main.go:25, the bind fails: the address is taken, or the system refuses
ListenFail(i) ==
    /\ pc[i] = "listen"
    /\ \E e \in BindErrors :
          /\ (e = "bind: address already in use") <=> ~BindSucceeds(Addr(port[i]))
          /\ err' = [err EXCEPT ![i] = e]
    /\ binds' = [binds EXCEPT ![i] = @ + 1]
    /\ pc' = [pc EXCEPT ![i] = AfterListenError]
    /\ UNCHANGED <<port, fallback, mux, logs, exitCode, owner, conn, probe, poolVars>>

\* main.go:26, log.Fatal(err): the error is logged, then os.Exit(1)
Fatal(i) ==
    /\ pc[i] = "fatal"
    /\ logs' = [logs EXCEPT ![i] = Append(@, err[i])]
    /\ exitCode' = [exitCode EXCEPT ![i] = 1]
    /\ pc' = [pc EXCEPT ![i] = "exited"]
    /\ UNCHANGED <<port, fallback, mux, binds, err, owner, conn, probe, poolVars>>

\* an external signal ends a serving process: its listener and its
\* connections go with it
Kill(i) ==
    /\ pc[i] = "serving"
    /\ pc' = [pc EXCEPT ![i] = "killed"]
    /\ owner' = [a \in Addrs |-> IF owner[a] = i THEN NoOwner ELSE owner[a]]
    /\ conn' = [c \in Conns |-> IF conn[c].srv = i THEN IdleConn ELSE conn[c]]
    /\ UNCHANGED <<port, fallback, mux, logs, exitCode, binds, err, probe, poolVars>>

\* ------------------------------------------------------------- connections

\* the server reads a request and the mux picks its handler
Accept(c) ==
    /\ conn[c].phase = "idle"
    /\ \E i \in Instances, m \in Methods, p \in ConnPaths, q \in Queries :
          /\ pc[i] = "serving"
          /\ conn' = [conn EXCEPT ![c] =
                        [phase |-> Route(mux[i], m, p), srv |-> i, method |-> m,
                         path |-> p, query |-> q, w |-> NewWriter(m)]]
    /\ UNCHANGED <<serverVars, probe, poolVars>>

\* main.go:30-32
HandleRoot(c) ==
    /\ conn[c].phase = "handleRoot"
    /\ conn' = [conn EXCEPT ![c].w = handleRoot(@), ![c].phase = "done"]
    /\ UNCHANGED <<serverVars, probe, poolVars>>

\* main.go:35
HandleHealthHeader(c) ==
    /\ conn[c].phase = "handleHealth"
    /\ conn' = [conn EXCEPT ![c].w = handleHealthHeader(@), ![c].phase = "handleHealth36"]
    /\ UNCHANGED <<serverVars, probe, poolVars>>

\* main.go:36
HandleHealthBody(c) ==
    /\ conn[c].phase = "handleHealth36"
    /\ conn' = [conn EXCEPT ![c].w = handleHealthBody(@), ![c].phase = "done"]
    /\ UNCHANGED <<serverVars, probe, poolVars>>

\* main.go:39-41
HandleVersion(c) ==
    /\ conn[c].phase = "handleVersion"
    /\ conn' = [conn EXCEPT ![c].w = handleVersion(@), ![c].phase = "done"]
    /\ UNCHANGED <<serverVars, probe, poolVars>>

\* the mux answers by itself: a redirect to the clean path, or 404
MuxAnswers(c) ==
    /\ conn[c].phase \in {"Redirect", "NotFound"}
    /\ conn' = [conn EXCEPT ![c].w = Serve(mux[conn[c].srv], conn[c].method, conn[c].path,
                                              conn[c].query),
                            ![c].phase = "done"]
    /\ UNCHANGED <<serverVars, probe, poolVars>>

\* the response is sent and the connection is free again
Finish(c) ==
    /\ conn[c].phase = "done"
    /\ conn' = [conn EXCEPT ![c] = IdleConn]
    /\ UNCHANGED <<serverVars, probe, poolVars>>

Next ==
    \/ \E i \in Instances : SelectPort(i)
    \/ \E i \in Instances : RegisterHandlers(i)
    \/ \E i \in Instances : LogStarting(i)
    \/ \E i \in Instances : ListenOK(i)
    \/ \E i \in Instances : ListenFail(i)
    \/ \E i \in Instances : Fatal(i)
    \/ \E i \in Instances : Kill(i)
    \/ \E c \in Conns : Accept(c)
    \/ \E c \in Conns : HandleRoot(c)
    \/ \E c \in Conns : HandleHealthHeader(c)
    \/ \E c \in Conns : HandleHealthBody(c)
    \/ \E c \in Conns : HandleVersion(c)
    \/ \E c \in Conns : MuxAnswers(c)
    \/ \E c \in Conns : Finish(c)

Spec == Init /\ [][Next]_vars

\* ------------------------------------------------- one request, start to end

\* a request of any method, path and query reaches a serving instance and is
\* routed and answered
Probe ==
    /\ probe = NoProbe
    /\ \E i \in Instances, m \in AllMethods, p \in Paths, q \in Queries :
          /\ pc[i] = "serving"
          /\ probe' = [method |-> m, path |-> p, query |-> q,
                       handler |-> Route(mux[i], m, p), w |-> Serve(mux[i], m, p, q)]
    /\ UNCHANGED <<serverVars, conn, poolVars>>

ProbeDone ==
    /\ probe # NoProbe
    /\ probe' = NoProbe
    /\ UNCHANGED <<serverVars, conn, poolVars>>

NextMux ==
    \/ SelectPort("first")
    \/ RegisterHandlers("first")
    \/ LogStarting("first")
    \/ ListenOK("first")
    \/ ListenFail("first")
    \/ Fatal("first")
    \/ Probe
    \/ ProbeDone

SpecMux == Init /\ [][NextMux]_vars

\* ---------------------------------------- Worker_Pool.md, Option 2: the pool

Workers == 1..MaxWorkers
Jobs == 0..(MaxJobs - 1)

\* jobs := make(chan int, 500): the buffer holds every job that is sent
ChanCap == MaxJobs

\* a worker that leaves as soon as it finds the channel empty
RangeEndsOnEmpty(q, isClosed) == q = <<>>

\* for i := range jobs ends once the channel is closed and drained
RangeEnds(q, isClosed) == q = <<>> /\ isClosed

InitPool ==
    /\ pc = [i \in Instances |-> "main"]
    /\ port = [i \in Instances |-> ""]
    /\ fallback = [i \in Instances |-> FALSE]
    /\ mux = [i \in Instances |-> {}]
    /\ logs = [i \in Instances |-> <<>>]
    /\ exitCode = [i \in Instances |-> -1]
    /\ binds = [i \in Instances |-> 0]
    /\ err = [i \in Instances |-> ""]
    /\ owner = [a \in Addrs |-> NoOwner]
    /\ conn = [c \in Conns |-> IdleConn]
    /\ probe = NoProbe
    /\ mainpc = "spawn" /\ wg = 0 /\ jobs = <<>> /\ closed = FALSE /\ next = 0
    /\ wpc = [w \in Workers |-> "off"]
    /\ cur = [w \in Workers |-> -1]
    /\ done = [j \in Jobs |-> 0]

\* Worker_Pool.md:49-58: wg.Add(1) and go func() for the next worker
StartWorker ==
    /\ mainpc = "spawn"
    /\ \E w \in Workers :
          /\ wpc[w] = "off"
          /\ \A v \in Workers : v < w => wpc[v] # "off"
          /\ wg' = wg + 1
          /\ wpc' = [wpc EXCEPT ![w] = "range"]
          /\ mainpc' = IF w = MaxWorkers THEN "send" ELSE "spawn"
    /\ UNCHANGED <<serverVars, conn, probe, jobs, closed, next, cur, done>>

\* Worker_Pool.md:61-63: jobs <- i
Send ==
    /\ mainpc = "send"
    /\ Len(jobs) < ChanCap
    /\ jobs' = Append(jobs, next)
    /\ next' = next + 1
    /\ mainpc' = IF next + 1 = MaxJobs THEN "close" ELSE "send"
    /\ UNCHANGED <<serverVars, conn, probe, wg, closed, wpc, cur, done>>

\* Worker_Pool.md:64: close(jobs)
Close ==
    /\ mainpc = "close"
    /\ closed' = TRUE
    /\ mainpc' = "wait"
    /\ UNCHANGED <<serverVars, conn, probe, wg, jobs, next, wpc, cur, done>>

\* Worker_Pool.md:66: wg.Wait() returns when the counter is zero
Wait ==
    /\ mainpc = "wait"
    /\ wg = 0
    /\ mainpc' = "done"
    /\ UNCHANGED <<serverVars, conn, probe, wg, jobs, closed, next, wpc, cur, done>>

\* Worker_Pool.md:53: the range loop receives the next job
Receive(w) ==
    /\ wpc[w] = "range"
    /\ jobs # <<>>
    /\ cur' = [cur EXCEPT ![w] = Head(jobs)]
    /\ jobs' = Tail(jobs)
    /\ wpc' = [wpc EXCEPT ![w] = "work"]
    /\ UNCHANGED <<serverVars, conn, probe, mainpc, wg, closed, next, done>>

\* Worker_Pool.md:54-55: the job is processed
Process(w) ==
    /\ wpc[w] = "work"
    /\ done' = [done EXCEPT ![cur[w]] = @ + 1]
    /\ wpc' = [wpc EXCEPT ![w] = "range"]
    /\ UNCHANGED <<serverVars, conn, probe, mainpc, wg, jobs, closed, next, cur>>

\* Worker_Pool.md:52-53: the loop ends and the deferred wg.Done() runs
WorkerExit(w) ==
    /\ wpc[w] = "range"
    /\ RangeEnds(jobs, closed)
    /\ wg' = wg - 1
    /\ wpc' = [wpc EXCEPT ![w] = "exited"]
    /\ UNCHANGED <<serverVars, conn, probe, mainpc, jobs, closed, next, cur, done>>

NextPool ==
    \/ StartWorker
    \/ Send
    \/ Close
    \/ Wait
    \/ \E w \in Workers : Receive(w)
    \/ \E w \in Workers : Process(w)
    \/ \E w \in Workers : WorkerExit(w)

SpecPool == InitPool /\ [][NextPool]_vars

\* ==================================================================== claims

WelcomeBody == "Hello! Welcome to the Go Makefile Project!\n"

\* w is a complete response with status st and body b
Shows(w, st, b) == w.wroteHeader /\ w.status = st /\ w.body = b /\ w.location = <<>>

\* the body a client of method m receives when the handler writes b
Received(m, b) == IF m = "HEAD" THEN "" ELSE b

\* the body each of the three routes writes
RouteBody(p) ==
    CASE p = RootPath -> WelcomeBody
      [] p = HealthPath -> "OK\n"
      [] p = VersionPath -> "Version: 1.0.0\n"

Probed == probe # NoProbe

\* how often line l stands in the log ls
Count(ls, l) == Cardinality({k \in 1..Len(ls) : ls[k] = l})

Started3000 == "Starting server on port 3000..."

\* C1 as stated: a request for exactly "/", of any method and with any
\* query, is answered with status 200 and exactly the welcome line.
C1_Original ==
    (Probed /\ probe.path = RootPath) =>
        Shows(probe.w, 200, "Hello! Welcome to the Go Makefile Project!\n")

\* C1, amended: a request for exactly "/", with any query, is answered with
\* status 200 and, for every method but HEAD, exactly the welcome line; the
\* answer to HEAD has status 200 and no body.
C1_RootAnswer ==
    (Probed /\ probe.path = RootPath) =>
        /\ probe.handler = "handleRoot"
        /\ probe.method # "HEAD" =>
              Shows(probe.w, 200, "Hello! Welcome to the Go Makefile Project!\n")
        /\ probe.method = "HEAD" => Shows(probe.w, 200, "")

C1_Witness ==
    /\ probe.path = RootPath /\ probe.method = "DELETE" /\ probe.query = "a=1"
    /\ probe.handler = "handleRoot"
    /\ probe.w.status = 200 /\ probe.w.body = WelcomeBody

\* C2 as stated: a request for exactly "/health", of any method and with
\* any query, is answered with status 200 and exactly "OK\n".
C2_Original ==
    (Probed /\ probe.path = HealthPath) => Shows(probe.w, 200, "OK\n")

\* C2, amended: a request for exactly "/health", with any query, is answered
\* with status 200 and, for every method but HEAD, exactly "OK\n"; the
\* answer to HEAD has status 200 and no body.
C2_HealthAnswer ==
    (Probed /\ probe.path = HealthPath) =>
        /\ probe.handler = "handleHealth"
        /\ probe.method # "HEAD" => Shows(probe.w, 200, "OK\n")
        /\ probe.method = "HEAD" => Shows(probe.w, 200, "")

C2_Witness ==
    /\ probe.path = HealthPath /\ probe.method = "PUT" /\ probe.query = "a=1"
    /\ probe.handler = "handleHealth"
    /\ probe.w.status = 200 /\ probe.w.body = "OK\n"

\* C3 as stated: a request for exactly "/version", of any method and with
\* any query, is answered with status 200 and exactly "Version: 1.0.0\n".
C3_Original ==
    (Probed /\ probe.path = VersionPath) => Shows(probe.w, 200, "Version: 1.0.0\n")

\* C3, amended: a request for exactly "/version", with any query, is
\* answered with status 200 and, for every method but HEAD, exactly
\* "Version: 1.0.0\n"; the answer to HEAD has status 200 and no body.
C3_VersionAnswer ==
    (Probed /\ probe.path = VersionPath) =>
        /\ probe.handler = "handleVersion"
        /\ probe.method # "HEAD" => Shows(probe.w, 200, "Version: 1.0.0\n")
        /\ probe.method = "HEAD" => Shows(probe.w, 200, "")

C3_Witness ==
    /\ probe.path = VersionPath /\ probe.method = "POST" /\ probe.query = ""
    /\ probe.handler = "handleVersion"
    /\ probe.w.status = 200 /\ probe.w.body = "Version: 1.0.0\n"

C5_BindFailureFatal ==
    \A i \in Instances :
        /\ binds[i] <= 1
        /\ err[i] # "" =>
              /\ pc[i] \in {"fatal", "exited"}
              /\ \A a \in Addrs : owner[a] # i
              /\ \A c \in Conns : conn[c].srv # i
              /\ pc[i] = "fatal" => (ENABLED Fatal(i)) /\ exitCode[i] = -1
              /\ pc[i] = "exited" =>
                    /\ exitCode[i] \notin {0, -1}
                    /\ logs[i] # <<>> /\ Last(logs[i]) = err[i]

C5_Witness ==
    \E i \in Instances :
        /\ pc[i] = "exited" /\ err[i] = "bind: permission denied"
        /\ exitCode[i] = 1 /\ binds[i] = 1

\* C6: two instances never hold the listener together: a bind attempted
\* while another instance serves ends in the fatal path and leaves the
\* serving instance, its listener and its connections as they were.
C6_SecondInstanceFails ==
    /\ [](\A i, j \in Instances :
            /\ (i # j) => ~(pc[i] = "serving" /\ pc[j] = "serving")
            /\ pc[i] = "serving" => owner[":3000"] = i
            /\ \A c \in Conns : conn[c].srv = i => pc[i] = "serving")
    /\ [][\A i, j \in Instances :
            (i # j /\ pc[i] = "serving" /\ pc[j] = "listen" /\ pc'[j] # "listen")
            => (pc'[j] = "fatal" /\ pc'[i] = "serving" /\ owner' = owner /\ conn' = conn)]_vars

C6_Witness ==
    /\ pc["first"] = "serving" /\ owner[":3000"] = "first"
    /\ pc["second"] = "exited" /\ err["second"] = "bind: address already in use"
    /\ \E c \in Conns :
          /\ conn[c].srv = "first" /\ conn[c].phase = "done" /\ conn[c].method = "GET"
          /\ conn[c].path = HealthPath /\ Shows(conn[c].w, 200, "OK\n")

\* C7: the port is always 3000: once chosen it is "3000", the listener is
\* asked for ":3000" only, and the fallback to 8080 is never taken.
C7_Port3000 ==
    \A i \in Instances :
        /\ ~fallback[i]
        /\ pc[i] # "main" => port[i] = "3000"
        /\ binds[i] > 0 => Addr(port[i]) = ":3000"
        /\ \A a \in Addrs : owner[a] # NoOwner => a = ":3000"

C7_Witness ==
    /\ pc["first"] = "serving" /\ port["first"] = "3000"
    /\ owner[":3000"] = "first" /\ ~fallback["first"]
    /\ \E c \in Conns :
          /\ conn[c].phase = "done" /\ conn[c].path = HealthPath /\ conn[c].method = "GET"
          /\ Shows(conn[c].w, 200, "OK\n")

\* C8 as stated: the start-up line is written exactly once, only when the
\* listener was bound, and the process never exits with status 0.
C8_Original ==
    \A i \in Instances :
        /\ Count(logs[i], Started3000) <= 1
        /\ Count(logs[i], Started3000) = 1 => err[i] = ""
        /\ exitCode[i] # 0

\* C8, amended: the start-up line is written exactly once in every
\* execution, before the bind is attempted and whether or not the bind
\* succeeds; a serving process does not leave serving on its own, and no
\* process exits with status 0.
C8_LogBeforeBind ==
    /\ [](\A i \in Instances :
            /\ pc[i] \in {"main", "register", "log"} => logs[i] = <<>>
            /\ pc[i] \notin {"main", "register", "log"} =>
                  /\ Count(logs[i], Started3000) = 1
                  /\ Head(logs[i]) = Started3000
            /\ exitCode[i] # 0)
    /\ [][\A i \in Instances :
            /\ (binds'[i] > binds[i]) => Count(logs[i], Started3000) = 1
            /\ pc[i] = "serving" => pc'[i] \in {"serving", "killed"}]_vars

C8_Witness ==
    \E i \in Instances :
        /\ pc[i] = "exited" /\ err[i] # ""
        /\ logs[i] = <<Started3000, err[i]>>

\* a path in canonical form: no "." or ".." segment and no empty segment
\* but a last one (the trailing slash)
IsClean(p) ==
    \A k \in 1..Len(p) : p[k] \notin {".", ".."} /\ (p[k] = "" => k = Len(p))

\* C9 as stated: every request for a path other than "/health" and
\* "/version" is answered by the root handler, with 200 and the welcome
\* line.
C9_Original ==
    (Probed /\ probe.path \notin {HealthPath, VersionPath}) =>
        /\ probe.handler = "handleRoot"
        /\ Shows(probe.w, 200, WelcomeBody)

\* C9, amended: a request for a path other than "/health" and "/version" is
\* answered by the root handler, with 200 and the welcome line (no body for
\* HEAD), if the path is in canonical form or the method is CONNECT; any
\* other request is redirected to the canonical form of its path and reaches
\* no handler; no request is answered 404.
C9_CatchAll ==
    Probed =>
        /\ probe.w.status # 404
        /\ probe.handler # "NotFound"
        /\ (probe.path \notin {HealthPath, VersionPath}
              /\ (IsClean(probe.path) \/ probe.method = "CONNECT"))
           => /\ probe.handler = "handleRoot"
              /\ Shows(probe.w, 200, Received(probe.method, WelcomeBody))
        /\ (~IsClean(probe.path) /\ probe.method # "CONNECT")
           => /\ probe.handler = "Redirect"
              /\ probe.w.status = 301 /\ probe.w.body # WelcomeBody
              /\ IsClean(probe.w.location)

C9_Witness ==
    /\ probe.path = <<"health", "">> /\ probe.method = "GET"
    /\ probe.handler = "handleRoot"
    /\ Shows(probe.w, 200, WelcomeBody)

\* C10: main passes wg.Wait() only when every job was processed, no job is
\* ever processed twice, and no job is lost: each job sent is in the
\* channel, with one worker, or processed.
C10_PoolDrains ==
    /\ \A j \in Jobs : done[j] <= 1
    /\ \A j \in Jobs :
          j < next =>
             Cardinality({k \in 1..Len(jobs) : jobs[k] = j})
               + Cardinality({w \in Workers : wpc[w] = "work" /\ cur[w] = j})
               + done[j] = 1
    /\ mainpc = "done" =>
          /\ \A j \in Jobs : done[j] = 1
          /\ \A w \in Workers : wpc[w] = "exited"

C10_Witness ==
    /\ mainpc = "done"
    /\ \A j \in Jobs : done[j] = 1
    /\ \E w \in Workers : \A v \in Workers : wpc[v] = "exited" /\ wg = 0

====
